---- MODULE Spec2Model ----
(***************************************************************************)
(* The area_division node (area_division/src/area_division.cpp): the       *)
(* process-wide state, the four feed callbacks, the get_area service and   *)
(* the start-up sequence of main.  ROS runs all handlers on the one        *)
(* thread that calls spinOnce()/spin(), so every handler is one atomic     *)
(* action.                                                                 *)
(***************************************************************************)
EXTENDS Integers, Sequences, FiniteSets, TLC

\* ------------------------------------------------------------------ bounds
MaxTime == 2
MaxMsgLen == 1

\* ------------------------------------------------------------------ inputs
\* the identities of the nodes: the values of the identity feed (which
\* delivers non-empty identities only) and of the reports on the position feed
Ids == {"a", "b"}
\* world positions <<x, y>> of the members on the position feed
Poses == {<<0, 0>>, <<3, 0>>}
\* world positions <<x, y>> on the own-pose feed
OwnPoses == {<<0, 0>>, <<7, 0>>}
\* values of the parameter swarm_timeout in seconds (line 156 reads any double)
Timeouts == {-1, 0, 1}

\* a default-constructed nav_msgs::OccupancyGrid: what gridmap holds before the
\* first map message
MapZ == [width |-> 0, height |-> 0, resolution |-> 0, origin |-> <<0, 0>>,
         data |-> <<>>]
\* 3 x 1 cells of 2 m from x = -1: x = 0 rounds to column 1 (occupied),
\* x = 3 to column 2, x = 7 to column 4 (outside)
MapB == [width |-> 3, height |-> 1, resolution |-> 2, origin |-> <<-1, 0>>,
         data |-> <<0, 100, 0>>]
\* the same grid announced with a negative resolution: every pose converts to
\* a negative column (x = 0 -> -1, x = 3 -> -2, x = 7 -> -4)
MapN == [width |-> 3, height |-> 1, resolution |-> -2, origin |-> <<-1, 0>>,
         data |-> <<0, 100, 0>>]
\* the grids the map feed delivers.  None has resolution 0, for which the
\* quotient of lines 12-13 is NaN or infinite and its conversion to int is
\* undefined.
Maps == {MapN, MapB}

\* one element of cpswarm_msgs::ArrayOfPositions
Reports == [node : Ids, pose : Poses]
Msgs == UNION {[1..n -> Reports] : n \in 0..MaxMsgLen}

VARIABLES
    uuid,          \* string uuid
    pose,          \* geometry_msgs::Pose pose (own world position)
    pose_valid,
    swarm_valid,
    map_valid,
    gridmap,       \* nav_msgs::OccupancyGrid gridmap
    swarm_pose,    \* map<string, PoseStamped>: id -> [stamp, pose]
    reconfigure,   \* the reconfiguration trigger
    swarm_timeout, \* parameter swarm_timeout
    division,      \* what the area_division object holds
    pc,            \* position of main
    now,           \* Time::now()
    ev             \* the handler that ran last, with its input and outcome

vars == <<uuid, pose, pose_valid, swarm_valid, map_valid, gridmap, swarm_pose,
          reconfigure, swarm_timeout, division, pc, now, ev>>

\* op: the handler; msg: the message of swarm_callback; removed: the
\* identities its second loop erased; divided: get_area called divide_area;
\* ret: the value get_area returned
Event(op, msg, removed, divided, ret) ==
    [op |-> op, msg |-> msg, removed |-> removed, divided |-> divided,
     ret |-> ret]
\* any handler other than swarm_callback and get_area
Idle == Event("other", <<>>, {}, FALSE, TRUE)

\* ------------------------------------------------------------ divide_area
Abs(n) == IF n < 0 THEN -n ELSE n

\* C round() of the quotient n / d, d # 0: to nearest, halves away from zero
Round(n, d) ==
    LET q == (2 * Abs(n) + Abs(d)) \div (2 * Abs(d))
    IN  IF (n < 0) = (d < 0) THEN q ELSE -q

\* the grid coordinate computed in lines 12-13 and 19-20
ToGrid(p, m) ==
    <<Round(p[1] - m.origin[1], m.resolution),
      Round(p[2] - m.origin[2], m.resolution)>>

\* swarm_grid with line 21 assigning swarm_grid[uuid] = pos
SwarmGridOwnPose(reg, id, p, m) ==
    [k \in DOMAIN reg \cup {id} |->
        IF k = id THEN ToGrid(p, m) ELSE ToGrid(reg[k].pose, m)]

\* swarm_grid after line 21: one entry per registered identity, and the own
\* identity with the own pose unless the registry already holds it
\* (map::emplace does not overwrite)
SwarmGrid(reg, id, p, m) ==
    [k \in DOMAIN reg \cup {id} |->
        IF k \in DOMAIN reg THEN ToGrid(reg[k].pose, m) ELSE ToGrid(p, m)]

\* the identities in the order of std::less<string>, the order of the keys of
\* swarm_grid (line 9)
IdSeq == <<"", "a", "b">>
Less(x, y) ==
    (CHOOSE i \in DOMAIN IdSeq : IdSeq[i] = x)
        < (CHOOSE i \in DOMAIN IdSeq : IdSeq[i] = y)

\* emplace on a container that keeps its keys in the order of insertion
EmplaceBack(keys, k) ==
    IF \E i \in DOMAIN keys : keys[i] = k THEN keys ELSE Append(keys, k)

\* map::emplace of lines 14 and 21 on the keys of swarm_grid, listed in the
\* order in which the map is iterated: a key not yet present goes between the
\* smaller and the greater keys
Emplace(keys, k) ==
    IF \E i \in DOMAIN keys : keys[i] = k THEN keys
    ELSE SelectSeq(keys, LAMBDA x : Less(x, k)) \o <<k>>
             \o SelectSeq(keys, LAMBDA x : Less(k, x))

\* the keys of swarm_grid after the emplace calls for the first n keys of seq
RECURSIVE EmplaceAll(_, _)
EmplaceAll(seq, n) ==
    IF n = 0 THEN <<>> ELSE Emplace(EmplaceAll(seq, n - 1), seq[n])

\* the identities of S as a sequence, smallest first
RECURSIVE Keys(_)
Keys(S) ==
    IF S = {} THEN <<>>
    ELSE LET k == CHOOSE x \in S : \A y \in S : ~Less(y, x)
         IN  <<k>> \o Keys(S \ {k})

\* the keys of swarm_grid as initialize_cps iterates them (line 27): the loop
\* of lines 10-15 emplaces the registered identities, line 21 the own one
SwarmOrder(reg, id) ==
    LET seq == Append(Keys(DOMAIN reg), id)
    IN  EmplaceAll(seq, Len(seq))

\* the engine after initialize_map, initialize_cps and divide: the grid, the
\* robots' grid coordinates and the order in which it was given the robots
Engine(m, grid, order) ==
    [width |-> m.width, height |-> m.height, map |-> m.data, cps |-> grid,
     order |-> order, divided |-> TRUE]

NoDivision ==
    [width |-> 0, height |-> 0, map |-> <<>>, cps |-> <<>>, order |-> <<>>,
     divided |-> FALSE]

\* divide_area without line 34
divide_area_keeps_trigger ==
    /\ division' = Engine(gridmap, SwarmGrid(swarm_pose, uuid, pose, gridmap),
                          SwarmOrder(swarm_pose, uuid))
    /\ UNCHANGED reconfigure

divide_area ==
    /\ division' = Engine(gridmap, SwarmGrid(swarm_pose, uuid, pose, gridmap),
                          SwarmOrder(swarm_pose, uuid))
    /\ reconfigure' = FALSE

\* ------------------------------------------------------------ get_area
\* get_area without the test of line 46
get_area_always_divides ==
    /\ pc = "spin"
    /\ divide_area
    /\ ev' = Event("get_area", <<>>, {}, TRUE, TRUE)
    /\ UNCHANGED <<uuid, pose, pose_valid, swarm_valid, map_valid, gridmap,
                   swarm_pose, swarm_timeout, pc, now>>

\* get_area under a spinner with several threads: a swarm_callback with one
\* report registers or refreshes a member between divide_area and the answer
get_area_interleaved ==
    /\ pc = "spin"
    /\ IF reconfigure
         THEN division' = Engine(gridmap,
                                 SwarmGrid(swarm_pose, uuid, pose, gridmap),
                                 SwarmOrder(swarm_pose, uuid))
         ELSE UNCHANGED division
    /\ \E cps \in Reports :
          /\ swarm_pose' = [k \in DOMAIN swarm_pose \cup {cps.node} |->
                               IF k = cps.node
                                 THEN [stamp |-> now, pose |-> cps.pose]
                                 ELSE swarm_pose[k]]
          /\ reconfigure' = (cps.node \notin DOMAIN swarm_pose)
    /\ ev' = Event("get_area", <<>>, {}, reconfigure, TRUE)
    /\ UNCHANGED <<uuid, pose, pose_valid, swarm_valid, map_valid, gridmap,
                   swarm_timeout, pc, now>>

get_area ==
    /\ pc = "spin"
    /\ IF reconfigure
         THEN divide_area
         ELSE UNCHANGED <<division, reconfigure>>
    /\ ev' = Event("get_area", <<>>, {}, reconfigure, TRUE)
    /\ UNCHANGED <<uuid, pose, pose_valid, swarm_valid, map_valid, gridmap,
                   swarm_pose, swarm_timeout, pc, now>>

\* ------------------------------------------------------------ callbacks
\* spinOnce() in the three waiting loops and spin() dispatch the callbacks
Spinning == pc \in {"init_uuid", "init_position", "init_map", "spin"}

uuid_callback(value) ==
    /\ Spinning
    /\ uuid' = value
    /\ ev' = Idle
    /\ UNCHANGED <<pose, pose_valid, swarm_valid, map_valid, gridmap,
                   swarm_pose, reconfigure, swarm_timeout, division, pc, now>>

\* pose_callback with pose_valid = msg->header.stamp.isValid()
pose_callback_resets(p, stampValid) ==
    /\ Spinning
    /\ pose' = p
    /\ pose_valid' = stampValid
    /\ ev' = Idle
    /\ UNCHANGED <<uuid, swarm_valid, map_valid, gridmap, swarm_pose,
                   reconfigure, swarm_timeout, division, pc, now>>

pose_callback(p, stampValid) ==
    /\ Spinning
    /\ pose' = p
    /\ pose_valid' = (pose_valid \/ stampValid)
    /\ ev' = Idle
    /\ UNCHANGED <<uuid, swarm_valid, map_valid, gridmap, swarm_pose,
                   reconfigure, swarm_timeout, division, pc, now>>

\* map_callback asking for a new division
map_callback_reconfigures(m) ==
    /\ Spinning
    /\ gridmap' = m
    /\ map_valid' = TRUE
    /\ reconfigure' = TRUE
    /\ ev' = Idle
    /\ UNCHANGED <<uuid, pose, pose_valid, swarm_valid, swarm_pose,
                   swarm_timeout, division, pc, now>>

\* map_callback copying the cell values only
map_callback_data_only(m) ==
    /\ Spinning
    /\ gridmap' = [gridmap EXCEPT !.data = m.data]
    /\ map_valid' = TRUE
    /\ ev' = Idle
    /\ UNCHANGED <<uuid, pose, pose_valid, swarm_valid, swarm_pose,
                   reconfigure, swarm_timeout, division, pc, now>>

map_callback(m) ==
    /\ Spinning
    /\ gridmap' = m
    /\ map_valid' = TRUE
    /\ ev' = Idle
    /\ UNCHANGED <<uuid, pose, pose_valid, swarm_valid, swarm_pose,
                   reconfigure, swarm_timeout, division, pc, now>>

\* the loop of lines 86-107 over the first n elements of msg, from registry
\* reg and trigger value rc, at time t
\* the loop with line 98 moved behind the if/else: every report sets the trigger
RECURSIVE UpdateLoopAlwaysSets(_, _, _, _, _)
UpdateLoopAlwaysSets(reg, rc, msg, n, t) ==
    IF n = 0 THEN [reg |-> reg, rc |-> rc]
    ELSE LET s == UpdateLoopAlwaysSets(reg, rc, msg, n - 1, t)
             cps == msg[n]
             rec == [stamp |-> t, pose |-> cps.pose]
         IN  IF cps.node \notin DOMAIN s.reg
               THEN [reg |-> s.reg @@ (cps.node :> rec), rc |-> TRUE]
               ELSE [reg |-> [s.reg EXCEPT ![cps.node] = rec], rc |-> TRUE]

\* the loop with the else branch refreshing the time stamp only
RECURSIVE UpdateLoopKeepsPose(_, _, _, _, _)
UpdateLoopKeepsPose(reg, rc, msg, n, t) ==
    IF n = 0 THEN [reg |-> reg, rc |-> rc]
    ELSE LET s == UpdateLoopKeepsPose(reg, rc, msg, n - 1, t)
             cps == msg[n]
             rec == [stamp |-> t, pose |-> cps.pose]
         IN  IF cps.node \notin DOMAIN s.reg
               THEN [reg |-> s.reg @@ (cps.node :> rec), rc |-> TRUE]
               ELSE [reg |-> [s.reg EXCEPT ![cps.node].stamp = t], rc |-> s.rc]

RECURSIVE UpdateLoop(_, _, _, _, _)
UpdateLoop(reg, rc, msg, n, t) ==
    IF n = 0 THEN [reg |-> reg, rc |-> rc]
    ELSE LET s == UpdateLoop(reg, rc, msg, n - 1, t)
             cps == msg[n]
             rec == [stamp |-> t, pose |-> cps.pose]
         IN  IF cps.node \notin DOMAIN s.reg
               THEN [reg |-> s.reg @@ (cps.node :> rec), rc |-> TRUE]
               ELSE [reg |-> [s.reg EXCEPT ![cps.node] = rec], rc |-> s.rc]

\* line 111 with <= for <
ExpiredInclusive(rec, timeout, t) == rec.stamp + timeout <= t

\* the condition of line 111
Expired(rec, timeout, t) == rec.stamp + timeout < t

\* the second loop without line 116
PruneSilent(s, timeout, t) ==
    LET old == {id \in DOMAIN s.reg : Expired(s.reg[id], timeout, t)}
    IN  [reg |-> [id \in DOMAIN s.reg \ old |-> s.reg[id]],
         rc |-> s.rc,
         removed |-> old]

\* the loop of lines 110-121
Prune(s, timeout, t) ==
    LET old == {id \in DOMAIN s.reg : Expired(s.reg[id], timeout, t)}
    IN  [reg |-> [id \in DOMAIN s.reg \ old |-> s.reg[id]],
         rc |-> s.rc \/ old # {},
         removed |-> old]

swarm_callback(msg) ==
    /\ Spinning
    /\ LET s == Prune(UpdateLoop(swarm_pose, reconfigure, msg, Len(msg), now),
                      swarm_timeout, now)
       IN  /\ swarm_pose' = s.reg
           /\ reconfigure' = s.rc
           /\ ev' = Event("swarm", msg, s.removed, FALSE, TRUE)
    /\ swarm_valid' = TRUE
    /\ UNCHANGED <<uuid, pose, pose_valid, map_valid, gridmap, swarm_timeout,
                   division, pc, now>>

\* ------------------------------------------------------------------ main
\* the loop of lines 177-181 ends
init_uuid ==
    /\ pc = "init_uuid"
    /\ uuid # ""
    /\ pc' = "init_position"
    /\ ev' = Idle
    /\ UNCHANGED <<uuid, pose, pose_valid, swarm_valid, map_valid, gridmap,
                   swarm_pose, reconfigure, swarm_timeout, division, now>>

\* the second loop waiting for the own pose only
init_position_pose_only ==
    /\ pc = "init_position"
    /\ ~(pose_valid = FALSE)
    /\ pc' = "init_map"
    /\ ev' = Idle
    /\ UNCHANGED <<uuid, pose, pose_valid, swarm_valid, map_valid, gridmap,
                   swarm_pose, reconfigure, swarm_timeout, division, now>>

\* the loop of lines 184-188 ends
init_position ==
    /\ pc = "init_position"
    /\ ~(pose_valid = FALSE \/ swarm_valid = FALSE)
    /\ pc' = "init_map"
    /\ ev' = Idle
    /\ UNCHANGED <<uuid, pose, pose_valid, swarm_valid, map_valid, gridmap,
                   swarm_pose, reconfigure, swarm_timeout, division, now>>

\* the loop of lines 191-195 ends; the service is advertised and spin() entered
init_map ==
    /\ pc = "init_map"
    /\ ~(map_valid = FALSE)
    /\ pc' = "spin"
    /\ ev' = Idle
    /\ UNCHANGED <<uuid, pose, pose_valid, swarm_valid, map_valid, gridmap,
                   swarm_pose, reconfigure, swarm_timeout, division, now>>

\* ok() turns false: every loop and spin() end, main returns
shutdown ==
    /\ Spinning
    /\ pc' = "done"
    /\ ev' = Idle
    /\ UNCHANGED <<uuid, pose, pose_valid, swarm_valid, map_valid, gridmap,
                   swarm_pose, reconfigure, swarm_timeout, division, now>>

\* the clock read by Time::now() advances between handlers; the readings
\* within one swarm_callback (lines 93, 104, 111) are taken as one value
Tick ==
    /\ Spinning
    /\ now < MaxTime
    /\ now' = now + 1
    /\ ev' = Idle
    /\ UNCHANGED <<uuid, pose, pose_valid, swarm_valid, map_valid, gridmap,
                   swarm_pose, reconfigure, swarm_timeout, division, pc>>

\* main without line 149, the trigger starting false
Init_trigger_clear ==
    /\ reconfigure = FALSE
    /\ swarm_timeout \in Timeouts
    /\ uuid = ""
    /\ pose_valid = FALSE
    /\ swarm_valid = FALSE
    /\ map_valid = FALSE
    /\ pose = <<0, 0>>
    /\ gridmap = MapZ
    /\ swarm_pose = <<>>
    /\ division = NoDivision
    /\ pc = "init_uuid"
    /\ now = 0
    /\ ev = Idle

\* main up to the first waiting loop (lines 145-174)
Init ==
    /\ reconfigure = TRUE
    /\ swarm_timeout \in Timeouts
    /\ uuid = ""
    /\ pose_valid = FALSE
    /\ swarm_valid = FALSE
    /\ map_valid = FALSE
    /\ pose = <<0, 0>>
    /\ gridmap = MapZ
    /\ swarm_pose = <<>>
    /\ division = NoDivision
    /\ pc = "init_uuid"
    /\ now = 0
    /\ ev = Idle

Next ==
    \/ \E value \in Ids : uuid_callback(value)
    \/ \E p \in OwnPoses, stampValid \in BOOLEAN : pose_callback(p, stampValid)
    \/ \E msg \in Msgs : swarm_callback(msg)
    \/ \E m \in Maps : map_callback(m)
    \/ get_area
    \/ init_uuid
    \/ init_position
    \/ init_map
    \/ shutdown
    \/ Tick

Spec == Init /\ [][Next]_vars

\* each waiting loop of main tests its condition again after rate.sleep() and
\* spinOnce() (lines 177-195): a loop whose condition stays false is left
SpecLive ==
    /\ Init
    /\ [][Next]_vars
    /\ WF_vars(init_uuid)
    /\ WF_vars(init_position)
    /\ WF_vars(init_map)

\* ------------------------------------------------------------------ claims
\* the identities a position message reports
Nodes(msg) == {msg[i].node : i \in 1..Len(msg)}

\* the pose of the last report of id in msg
LastPose(msg, id) ==
    LET last == CHOOSE i \in 1..Len(msg) :
                    /\ msg[i].node = id
                    /\ \A j \in (i + 1)..Len(msg) : msg[j].node # id
    IN  msg[last].pose

\* the record a report of id in msg leaves at time t
Reported(msg, id, t) == [stamp |-> t, pose |-> LastPose(msg, id)]

\* C1: whenever get_area has answered, the trigger is false and a partition
\* exists; if the trigger was set when the query arrived, the engine holds the
\* grid of the stored map and the robots of the registry plus the own
\* identity, as they are at the answer.
C1_AnswerAfterCheck ==
    ev.op = "get_area" =>
        /\ reconfigure = FALSE
        /\ division.divided
        /\ ev.divided =>
             /\ division.width = gridmap.width
             /\ division.height = gridmap.height
             /\ division.map = gridmap.data
             /\ DOMAIN division.cps = DOMAIN swarm_pose \cup {uuid}
             /\ \A k \in DOMAIN swarm_pose :
                    division.cps[k] = ToGrid(swarm_pose[k].pose, gridmap)
             /\ uuid \notin DOMAIN swarm_pose =>
                    division.cps[uuid] = ToGrid(pose, gridmap)

\* a query that found the trigger set, with a member registered
C1_Witness ==
    /\ ev.op = "get_area"
    /\ ev.divided
    /\ DOMAIN swarm_pose # {}

\* C2: a step in which swarm_callback inserts a new identity or erases a
\* record leaves the trigger true; the trigger turns true in such a step
\* only, and turns false only in a get_area that ran divide_area.
C2_TriggerTransitions ==
    [][LET joined == /\ ev'.op = "swarm"
                     /\ Nodes(ev'.msg) \ DOMAIN swarm_pose # {}
           pruned == /\ ev'.op = "swarm"
                     /\ (DOMAIN swarm_pose \cup Nodes(ev'.msg))
                            \ DOMAIN swarm_pose' # {}
       IN  /\ (joined \/ pruned) => reconfigure'
           /\ (~reconfigure /\ reconfigure') => (joined \/ pruned)
           /\ (reconfigure /\ ~reconfigure') =>
                  (ev'.op = "get_area" /\ ev'.divided /\ division'.divided)
      ]_vars

\* after a partition was computed, a prune has set the trigger again
C2_Witness ==
    /\ ev.op = "swarm"
    /\ ev.removed # {}
    /\ division.divided
    /\ reconfigure

C4_PruneExact ==
    [][ev'.op = "swarm" =>
         LET msg == ev'.msg
             ids == DOMAIN swarm_pose \cup Nodes(msg)
             rec(id) == IF id \in Nodes(msg) THEN Reported(msg, id, now)
                                             ELSE swarm_pose[id]
             set == reconfigure \/ Nodes(msg) \ DOMAIN swarm_pose # {}
         IN  /\ ev'.removed =
                    {id \in ids : rec(id).stamp + swarm_timeout < now}
             /\ DOMAIN swarm_pose' = ids \ ev'.removed
             /\ \A id \in DOMAIN swarm_pose' : swarm_pose'[id] = rec(id)
             /\ ev'.removed # {} => reconfigure'
             /\ ev'.removed = {} => reconfigure' = set
      ]_vars

\* one record was erased while another, with stamp + timeout = now, was kept
C4_Witness ==
    /\ ev.op = "swarm"
    /\ ev.removed # {}
    /\ \E id \in DOMAIN swarm_pose :
          swarm_pose[id].stamp + swarm_timeout = now

\* C5, as claimed: no query is answered from a partition that contains a
\* registered member (other than the own identity) that has been silent for
\* timeout + 1 seconds or more.
C5_SilentMemberLeft ==
    ev.op = "get_area" =>
        \A b \in DOMAIN division.cps \cap DOMAIN swarm_pose :
            b # uuid => swarm_pose[b].stamp + swarm_timeout + 1 > now

\* C5, amended: a swarm_callback that runs when a registered member it does
\* not report has been silent for timeout + 1 seconds or more erases that
\* member and sets the trigger; the trigger then stays set until a get_area,
\* and a get_area that finds it set computes the partition for exactly the
\* registered identities and the own identity.
C5_PruneThenQuery ==
    [][/\ ev'.op = "swarm" =>
            \A b \in DOMAIN swarm_pose \ Nodes(ev'.msg) :
                swarm_pose[b].stamp + swarm_timeout + 1 <= now =>
                    /\ b \notin DOMAIN swarm_pose'
                    /\ b \in ev'.removed
                    /\ reconfigure'
       /\ (reconfigure /\ ev'.op # "get_area") => reconfigure'
       /\ (reconfigure /\ ev'.op = "get_area") =>
            /\ ev'.divided
            /\ DOMAIN division'.cps = DOMAIN swarm_pose' \cup {uuid'}
            /\ swarm_pose' = swarm_pose
      ]_vars

\* member b of the last partition has just been erased for node a, and the
\* trigger is set for the next query
C5_Witness ==
    /\ pc = "spin"
    /\ uuid = "a"
    /\ ev.op = "swarm"
    /\ ev.removed = {"b"}
    /\ division.divided
    /\ "b" \in DOMAIN division.cps
    /\ reconfigure

\* C6: a get_area runs only when main is in spin(), with pose_valid,
\* swarm_valid and map_valid true; main leaves the first loop only with a
\* non-empty uuid, the second only with pose_valid and swarm_valid, the third
\* only with map_valid, and passes the loops in this order.
C6_ReadyBeforeQuery ==
    [][/\ ev'.op = "get_area" =>
            (pc = "spin" /\ pose_valid /\ swarm_valid /\ map_valid)
       /\ pc' # pc =>
            \/ pc' = "done"
            \/ pc = "init_uuid" /\ pc' = "init_position" /\ uuid # ""
            \/ pc = "init_position" /\ pc' = "init_map"
                  /\ pose_valid /\ swarm_valid
            \/ pc = "init_map" /\ pc' = "spin" /\ map_valid
       /\ pc' = "spin" => (pose_valid' /\ swarm_valid' /\ map_valid')
      ]_vars

\* a query was answered
C6_Witness ==
    /\ ev.op = "get_area"
    /\ pc = "spin"
    /\ pose_valid /\ swarm_valid /\ map_valid

\* a grid coordinate inside the grid of w x h cells
InBounds(c, w, h) == c[1] >= 0 /\ c[1] < w /\ c[2] >= 0 /\ c[2] < h

\* C7, as claimed: when divide_area has run on a map of positive resolution,
\* no robot coordinate outside [0,width) x [0,height) has been handed to the
\* partition engine.
C7_OutOfBoundsRejected ==
    (ev.op = "get_area" /\ ev.divided /\ gridmap.resolution > 0) =>
        \A k \in DOMAIN division.cps :
            InBounds(division.cps[k], division.width, division.height)

\* C8, as claimed: a query answered while the stored map has zero width or
\* height or a non-positive resolution does not return success.
C8_InvalidMapFails ==
    (/\ ev.op = "get_area"
     /\ (gridmap.width = 0 \/ gridmap.height = 0 \/ gridmap.resolution <= 0))
        => ev.ret = FALSE

\* C9, as claimed: with a non-positive swarm_timeout the node neither prunes
\* (swarm_callback) nor serves queries.
C9_BadTimeoutFatal ==
    swarm_timeout <= 0 => (pc # "spin" /\ ev.op \notin {"swarm", "get_area"})

\* C10, as claimed: a non-empty uuid never changes.
C10_UuidImmutable ==
    [][uuid # "" => uuid' = uuid]_vars

\* ------------------------------------------------------------------ C11
\* the sequences that list every element of S once
Perms(S) ==
    {f \in [1..Cardinality(S) -> S] : \A i, j \in DOMAIN f : f[i] = f[j] => i = j}

\* C11: the robots are handed to the engine in the order of their identities
\* alone: after divide_area the engine's list holds the keys of swarm_grid
\* in increasing order, and it is the list that results from emplacing the
\* registered identities and the own one in any order of arrival.
C11_OrderByIdentity ==
    (ev.op = "get_area" /\ ev.divided) =>
        /\ \A i, j \in DOMAIN division.order :
               i < j => Less(division.order[i], division.order[j])
        /\ {division.order[i] : i \in DOMAIN division.order}
               = DOMAIN swarm_pose \cup {uuid}
        /\ \A f \in Perms(DOMAIN swarm_pose \cup {uuid}) :
               EmplaceAll(f, Len(f)) = division.order

\* the own identity, emplaced last, precedes the registered one in the list
C11_Witness ==
    /\ ev.op = "get_area"
    /\ ev.divided
    /\ uuid = "a"
    /\ DOMAIN swarm_pose = {"b"}
    /\ division.order = <<"a", "b">>

\* ------------------------------------------------------ partition engine
\* The class area_division (divide, get_grid) is not part of this source
\* file; the definitions of this section follow its description: validation
\* and initial assignment of the partition engine, and the region extractor.
\* The fairness correction and the connectivity repair are left out: the
\* first is not determined by the description, and neither moves the cell of
\* a robot's coordinate (its distance 0 is minimal under every factor, and the
\* repair keeps the component that contains the coordinate).

\* the owner of a cell that belongs to no robot
NoOwner == ""

\* the cells of the grid of d
Cells(d) == (0..(d.width - 1)) \X (0..(d.height - 1))

\* the raw classification of cell c in row-major data of the given width
CellValue(data, width, c) == data[c[2] * width + c[1] + 1]

\* squared distance of two grid coordinates
Dist(c1, c2) ==
    (c1[1] - c2[1]) * (c1[1] - c2[1]) + (c1[2] - c2[2]) * (c1[2] - c2[2])

\* the robots of d whose coordinate is c
RobotsAt(d, c) == {k \in DOMAIN d.cps : d.cps[k] = c}

\* the initial assignment with ties going to the robot that comes last
OwnerLast(d, c) ==
    IF ~d.divided \/ c \notin Cells(d) THEN NoOwner
    ELSE IF CellValue(d.map, d.width, c) # 0 /\ RobotsAt(d, c) = {}
           THEN NoOwner
    ELSE LET n == DOMAIN d.order
             far(i) == Dist(d.cps[d.order[i]], c)
             best == CHOOSE i \in n : \A j \in n :
                         far(i) < far(j) \/ (far(i) = far(j) /\ i >= j)
         IN  d.order[best]

\* the owner of cell c after divide: none for a cell outside the grid and
\* for an occupied or unknown cell no robot stands on; else the nearest
\* robot, the first in the order of the identities among equally near ones
Owner(d, c) ==
    IF ~d.divided \/ c \notin Cells(d) THEN NoOwner
    ELSE IF CellValue(d.map, d.width, c) # 0 /\ RobotsAt(d, c) = {}
           THEN NoOwner
    ELSE LET n == DOMAIN d.order
             far(i) == Dist(d.cps[d.order[i]], c)
             best == CHOOSE i \in n : \A j \in n :
                         far(i) < far(j) \/ (far(i) = far(j) /\ i <= j)
         IN  d.order[best]

\* division.get_grid(gridmap, uuid) of line 51: the map m with every cell
\* that id does not own replaced by -1
get_grid(d, m, id) ==
    [m EXCEPT !.data =
        [i \in DOMAIN m.data |->
            IF Owner(d, <<(i - 1) % m.width, (i - 1) \div m.width>>) = id
              THEN m.data[i] ELSE -1]]

\* res.map of get_area
Region == get_grid(division, gridmap, uuid)

\* ------------------------------------------------------------------ C12
\* C12: after every divide, for every robot of the engine's input whose
\* coordinate is a cell of the grid, that cell is owned by that robot.
C12_SelfOwnership ==
    division.divided =>
        \A k \in DOMAIN division.cps :
            division.cps[k] \in Cells(division) =>
                Owner(division, division.cps[k]) = k

\* C12 (amended): after every divide, every cell on which a robot of the
\* engine's input stands, whatever its classification, is owned by the robot
\* of lowest identity among those standing on it; the coordinate of a robot
\* outside the grid has no owner.
C12_LowestOwnsCell ==
    division.divided =>
        \A k \in DOMAIN division.cps :
            LET c == division.cps[k]
            IN  IF c \in Cells(division)
                  THEN /\ Owner(division, c) \in RobotsAt(division, c)
                       /\ \A o \in RobotsAt(division, c) :
                              ~Less(o, Owner(division, c))
                  ELSE Owner(division, c) = NoOwner

\* two robots on the same occupied cell
C12_Witness ==
    /\ division.divided
    /\ ev.op = "get_area"
    /\ ev.divided
    /\ RobotsAt(division, <<1, 0>>) = {"a", "b"}
    /\ CellValue(division.map, division.width, <<1, 0>>) = 100
    /\ Owner(division, <<1, 0>>) = "a"

\* ------------------------------------------------------------------ C13
\* C13: a query that finds the trigger clear does not call divide_area and
\* changes neither the registry, the map, the own pose, the partition, the
\* trigger nor anything else of the state, so that get_grid gets the
\* arguments it got in a query just before it.
C13_ClearQueryNoEffect ==
    [][(ev'.op = "get_area" /\ ~reconfigure) =>
          /\ ~ev'.divided
          /\ UNCHANGED <<uuid, pose, pose_valid, swarm_valid, map_valid,
                         gridmap, swarm_pose, reconfigure, swarm_timeout,
                         division, pc, now>>]_vars

\* a query answered from the stored partition, computed when the own pose
\* was another
C13_Witness ==
    /\ ev.op = "get_area"
    /\ ~ev.divided
    /\ ~reconfigure
    /\ division.divided
    /\ uuid \in DOMAIN division.cps
    /\ uuid \notin DOMAIN swarm_pose
    /\ division.cps[uuid] # ToGrid(pose, gridmap)

\* ------------------------------------------------------------------ C14
\* C14: the stored grid map changes only in map_callback, which replaces it
\* as a whole by the received grid and touches nothing but the map and its
\* flag; get_area with divide_area and swarm_callback leave it as it is.
C14_MapOnlyByMapCallback ==
    [][/\ gridmap' # gridmap =>
              /\ gridmap' \in Maps
              /\ map_valid'
              /\ ev' = Idle
              /\ UNCHANGED <<uuid, pose, pose_valid, swarm_valid, swarm_pose,
                             reconfigure, swarm_timeout, division, pc, now>>
       /\ ev'.op \in {"get_area", "swarm"} => gridmap' = gridmap]_vars

\* the map was replaced after a divide and the engine still holds the
\* coordinates computed with the one before
C14_Witness ==
    /\ ev = Idle
    /\ division.divided
    /\ gridmap = MapN
    /\ \E k \in DOMAIN division.cps : division.cps[k][1] >= 0

\* ------------------------------------------------------------------ C15
\* C15: no callback runs inside a query: from the call of get_area to its
\* answer the identity, the own pose, the map and the registry stay what
\* they were, divide_area computes the partition from exactly these values,
\* and the trigger is clear at the answer.
C15_QuerySnapshot ==
    [][ev'.op = "get_area" =>
          /\ UNCHANGED <<uuid, pose, gridmap, swarm_pose, now>>
          /\ reconfigure' = FALSE
          /\ reconfigure =>
                division' = Engine(gridmap,
                                   SwarmGrid(swarm_pose, uuid, pose, gridmap),
                                   SwarmOrder(swarm_pose, uuid))]_vars

\* a query divided for two robots on the grid with positive resolution
C15_Witness ==
    /\ ev.op = "get_area"
    /\ ev.divided
    /\ gridmap = MapB
    /\ Cardinality(DOMAIN division.cps) = 2
    /\ reconfigure = FALSE

C17_DividedBeforeAnswer ==
    /\ ~division.divided => (reconfigure /\ ev.op # "get_area")
    /\ ev.op = "get_area" => division.divided

\* a query ran divide_area although no member is registered
C17_Witness ==
    /\ ev.op = "get_area"
    /\ ev.divided
    /\ swarm_pose = <<>>
    /\ division.order = <<uuid>>

\* ------------------------------------------------------------------ C18
\* C18: the robots divide_area hands to the engine are the registered
\* identities and the own identity, each once, so there is at least one;
\* if the own identity is registered, its coordinate comes from the
\* registry's position and not from the own-pose feed.
C18_RobotSet ==
    (ev.op = "get_area" /\ ev.divided) =>
        /\ {division.order[i] : i \in DOMAIN division.order}
               = DOMAIN swarm_pose \cup {uuid}
        /\ Len(division.order) = Cardinality(DOMAIN swarm_pose \cup {uuid})
        /\ Len(division.order) >= 1
        /\ DOMAIN division.cps = DOMAIN swarm_pose \cup {uuid}
        /\ uuid \in DOMAIN swarm_pose =>
               division.cps[uuid] = ToGrid(swarm_pose[uuid].pose, gridmap)

\* the own identity is registered at a position that converts to another
\* cell than the own pose
C18_Witness ==
    /\ ev.op = "get_area"
    /\ ev.divided
    /\ uuid \in DOMAIN swarm_pose
    /\ ToGrid(swarm_pose[uuid].pose, gridmap) # ToGrid(pose, gridmap)
    /\ division.cps[uuid] = ToGrid(swarm_pose[uuid].pose, gridmap)

\* ------------------------------------------------------------------ C19
\* C19: a step that replaces the map or the own pose, and a swarm_callback
\* that only refreshes registered members, leave the trigger and the stored
\* partition as they are; a query that finds the trigger clear answers from
\* that stored partition.
C19_UpdatesKeepPartition ==
    [][/\ (gridmap' # gridmap \/ pose' # pose) =>
              (reconfigure' = reconfigure /\ division' = division)
       /\ (/\ ev'.op = "swarm"
           /\ Nodes(ev'.msg) \subseteq DOMAIN swarm_pose
           /\ ev'.removed = {}) =>
              (reconfigure' = reconfigure /\ division' = division)
       /\ (ev'.op = "get_area" /\ ~reconfigure) =>
              (division' = division /\ gridmap' = gridmap)]_vars

\* a query answered with a region that is not the one a division of the
\* present registry, pose and map gives: the coordinate of a registered
\* member is no longer the one the partition was computed with
C19_Witness ==
    /\ ev.op = "get_area"
    /\ ~ev.divided
    /\ DOMAIN division.cps = DOMAIN swarm_pose \cup {uuid}
    /\ \E k \in DOMAIN swarm_pose :
          division.cps[k] # ToGrid(swarm_pose[k].pose, gridmap)
    /\ Region # get_grid(Engine(gridmap,
                                SwarmGrid(swarm_pose, uuid, pose, gridmap),
                                SwarmOrder(swarm_pose, uuid)),
                         gridmap, uuid)
====
